---- MODULE Spec2Model ----
(***************************************************************************)
(* One Word Story: the session document of one room (games/{gameId}) and   *)
(* the gameService operations that read and write it.  Each Firebase       *)
(* transaction or update is one atomic step on the document; an operation  *)
(* that awaits between a read and a write, or that issues two transactions,*)
(* is split at those points, and other clients' steps interleave there.    *)
(***************************************************************************)
EXTENDS Integers, Sequences, FiniteSets, TLC

(* ------------------------------ bounds --------------------------------- *)
\* number of distinct player ids that ever address the room
NumPlayers == 3
\* submissions are not invoked once the story holds this many segments
MaxStory == 1
\* startGame and submitWords calls that are between two of their steps
MaxCalls == 1
\* nextTurn calls of observers that are invoked and not yet committed
MaxSkips == 2
\* the last reading of the clock
MaxTime == 2
\* ids that address a room beyond the MAX_PLAYERS it can hold
ExtraIds == 1
\* players that are away from a room (isActive false) at a time, where the
\* room is filled
MaxAway == 2
\* records in a room that were not created by joinGame
MaxStrangers == 1
\* turns a player is given in a game of a fixed set of players
MaxTurns == 3
\* the clock's reach, in shortest turn time limits
MaxWaits == 7
\* characters typed into the input of the play page
MaxInput == 7
\* characters of a submitted text, and segments of the story, where texts
\* are normalized
MaxText == 2
MaxSegments == 2
\* the largest totalResponseTime and turnCount of a ledger
MaxStat == 1
\* the room codes generateRoomCode draws, and the callers of createGame
NumCodes == 2
NumHosts == 2

(* --------------------------- program constants ------------------------- *)
NULL == 0
UNDEFINED == "undefined"
MAX_PLAYERS == 20
MAX_NAME_LENGTH == 12
DEFAULT_WORD_LIMIT == 3
DEFAULT_TURN_TIME == 30
MIN_TURN_TIME == 10
MAX_TURN_TIME == 60
START_TIMER == 30
FALLBACK_TURN_TIME == 30
DEFAULT_COLOR == "#000000"
PLAYER_COLORS ==
    << "#60A5FA", "#F87171", "#34D399", "#A78BFA", "#FBBF24", "#2DD4BF",
       "#F472B6", "#818CF8", "#38BDF8", "#FCD34D", "#C4B5FD", "#5EEAD4" >>

PlayerIds == 1..NumPlayers

\* the ids that address a room that is filled to its capacity
JoinerIds == 1..(MAX_PLAYERS + ExtraIds)

(* ------------------------------- state --------------------------------- *)
VARIABLES
    \* the session document (GameState)
    status, currentPlayerId, turnBag, lastPlayerId, timer, timerStartedAt,
    settings, story, players,
    \* the environment: Date.now(), the startGame and submitWords calls in
    \* flight, and the number of observers' nextTurn calls in flight, by
    \* whether the turn they were invoked for is running or has ended
    now, calls, skipCalls,
    \* history: the last scheduling pass, whether the running turn was begun
    \* by the scheduler with the player set unchanged since, the submissions
    \* appended while their author held the turn, and the turn advances made
    \* by submissions
    lastPass, settled, accepted, submitAdvances,
    \* history of a game of a fixed set of players: the players given a turn
    \* since the last shuffle of the bag, in order, and the number of turns
    \* each player was given
    fair,
    \* the host page: the ref that latches once the expiry watcher has called
    \* nextTurn for a turn, the ids of the players its leaderboard lists, and
    \* the state timeLeft of useGameTimer (milliseconds) as last rendered
    hasTimedOut, sortedPlayers, timeLeft,
    \* the play page of the player whose turn it is: the text in its input,
    \* and (history) what handleSubmit did with it since it was last typed;
    \* and what joinGame has returned to the pages that called it, by playerId
    inputText, submitted, joined,
    \* the database: the session documents under games/ by room code, the
    \* createGame calls between their get and their set, and the codes
    \* createGame has returned to its callers
    games, creates, returned

turnVars == <<currentPlayerId, turnBag, lastPlayerId, timer, timerStartedAt>>
doc == <<status, currentPlayerId, turnBag, lastPlayerId, timer, timerStartedAt,
         settings, story, players>>
history == <<lastPass, settled, accepted, submitAdvances, fair>>
hostPage == <<hasTimedOut, sortedPlayers, timeLeft>>
playPage == <<inputText, submitted, joined>>
pages == <<hostPage, playPage>>
rooms == <<games, creates, returned>>
vars == <<doc, now, calls, skipCalls, history, pages, rooms>>

(* ------------------------------ helpers -------------------------------- *)
\* Object.keys(players).filter(id => players[id].isActive)
ActiveIds(pl) == {id \in DOMAIN pl : pl[id].isActive}

\* every order ids.sort(() => Math.random() - 0.5) can produce
Perms(S) ==
    {f \in [1..Cardinality(S) -> S] : \A i, j \in 1..Cardinality(S) : i # j => f[i] # f[j]}

Range(s) == {s[i] : i \in 1..Len(s)}

\* a player's ledger field as its readers take it: player.totalResponseTime || 0
Stat(pl, id, field) ==
    IF id \in DOMAIN pl /\ field \in DOMAIN pl[id] THEN pl[id][field] ELSE 0

\* whether the player's record holds the ledger field
HasStat(pl, id, field) == id \in DOMAIN pl /\ field \in DOMAIN pl[id]

\* the record of a call between two of its steps: the operation, the step
\* it is at, its caller, and what it has read
Call(op, pc, playerId, color, ids) ==
    [op |-> op, pc |-> pc, playerId |-> playerId, color |-> color, ids |-> ids,
     text |-> <<>>]

\* whether a turn is running
Running == status = "PLAYING" /\ currentPlayerId # NULL

\* the nextTurn calls in flight once the running turn is over
TurnOver(sk) == [running |-> 0, ended |-> sk.ended + sk.running]

\* the record of a scheduling pass: the operation and, of a nextTurn that
\* selected a player, whether the bag it read was empty (refill) or held an
\* inactive id (stale), how many active players it read, whether the turn
\* it ended was settled, whether it selected the player whose turn it ended
\* (repeat), and whether a second observer's call for the turn it ended was
\* in flight (twin)
Pass(op, twin) ==
    [op |-> op,
     refill |-> op = "nextTurn" /\ turnBag = <<>>,
     stale |-> op = "nextTurn" /\ Range(turnBag) \ ActiveIds(players) # {},
     emptied |-> op = "nextTurn" /\ turnBag # <<>>
                 /\ Range(turnBag) \cap ActiveIds(players) = {},
     active |-> IF op = "nextTurn" THEN Cardinality(ActiveIds(players)) ELSE 0,
     settled |-> op = "nextTurn" /\ settled,
     repeat |-> op = "nextTurn" /\ currentPlayerId # NULL /\ currentPlayerId' = currentPlayerId,
     twin |-> op = "nextTurn" /\ twin]

(* ------------------------------ createGame ----------------------------- *)
Init ==
    /\ status = "LOBBY"
    /\ currentPlayerId = NULL
    /\ turnBag = <<>>
    /\ lastPlayerId = NULL
    /\ timer = 0
    /\ timerStartedAt = NULL
    /\ settings = [wordLimit |-> DEFAULT_WORD_LIMIT, turnTimeLimit |-> DEFAULT_TURN_TIME]
    /\ story = <<>>
    /\ players = <<>>
    /\ now = 1
    /\ calls = {}
    /\ skipCalls = [running |-> 0, ended |-> 0]
    /\ lastPass = [op |-> "none", refill |-> FALSE, stale |-> FALSE,
                   emptied |-> FALSE, active |-> 0,
                   settled |-> FALSE, repeat |-> FALSE, twin |-> FALSE]
    /\ settled = FALSE
    /\ accepted = 0
    /\ submitAdvances = 0
    /\ fair = [block |-> <<>>, taken |-> [p \in PlayerIds |-> 0]]
    /\ hasTimedOut = FALSE
    /\ sortedPlayers = <<>>
    /\ timeLeft = 0
    /\ inputText = <<>>
    /\ submitted = "none"
    /\ joined = <<>>
    /\ games = <<>>
    /\ creates = {}
    /\ returned = <<>>

(* ----------------------------- the database ---------------------------- *)
Codes == 1..NumCodes
Hosts == 1..NumHosts

\* initialGameState of createGame
InitialGameState ==
    [status |-> "LOBBY", currentPlayerId |-> NULL, turnBag |-> <<>>,
     lastPlayerId |-> NULL, timer |-> 0, timerStartedAt |-> NULL,
     settings |-> [wordLimit |-> DEFAULT_WORD_LIMIT, turnTimeLimit |-> DEFAULT_TURN_TIME],
     story |-> <<>>, players |-> <<>>]

\* the documents with value written at games/{code}
Written(code, value) ==
    [c \in DOMAIN games \cup {code} |-> IF c = code THEN value ELSE games[c]]

(* ------------------------------- joinGame ------------------------------ *)
\* the names players type, as sequences of characters: a short one and one
\* of more than MAX_NAME_LENGTH characters
ShortName == <<"A", "n", "n">>
LongName == <<"B", "a", "r", "t", "h", "o", "l", "o", "m", "e", "w", "-", "X">>
Names == {ShortName, LongName}

\* playerName.substring(0, GAME_RULES.MAX_NAME_LENGTH)
Truncate(name) ==
    SubSeq(name, 1, IF Len(name) < MAX_NAME_LENGTH THEN Len(name) ELSE MAX_NAME_LENGTH)

\* the palette index of a new player, one too far
ColorIndexOffByOne(count) == (count + 1) % Len(PLAYER_COLORS)

\* count % PLAYER_COLORS.length
ColorIndex(count) == count % Len(PLAYER_COLORS)

\* the record joinGame writes for a first or new player
NewPlayer(p, name, color, t) ==
    [id |-> p, name |-> Truncate(name), color |-> color, isActive |-> TRUE, lastSeen |-> t]

\* the update function of the transaction on games/{gameId}/players, with the
\* rejoin branch writing a new record
JoinTxnRecolor(pl, p, name, t) ==
    IF DOMAIN pl = {}
    THEN (p :> NewPlayer(p, name, PLAYER_COLORS[1], t))
    ELSE IF Cardinality(DOMAIN pl) >= MAX_PLAYERS /\ p \notin DOMAIN pl
    THEN pl
    ELSE (p :> NewPlayer(p, name,
                         PLAYER_COLORS[ColorIndex(Cardinality(DOMAIN pl)) + 1], t))
         @@ pl

\* the update function of the transaction on games/{gameId}/players
JoinTxn(pl, p, name, t) ==
    IF DOMAIN pl = {}
    THEN (p :> NewPlayer(p, name, PLAYER_COLORS[1], t))
    ELSE IF p \in DOMAIN pl
    THEN [pl EXCEPT ![p] = [lastSeen |-> t, name |-> Truncate(name), isActive |-> TRUE] @@ @]
    ELSE IF Cardinality(DOMAIN pl) >= MAX_PLAYERS
    THEN pl
    ELSE pl @@ (p :> NewPlayer(p, name,
                               PLAYER_COLORS[ColorIndex(Cardinality(DOMAIN pl)) + 1], t))

\* assignedColor, the colour joinGame returns
JoinColor(pl, p) ==
    IF DOMAIN pl = {}
    THEN PLAYER_COLORS[1]
    ELSE IF p \in DOMAIN pl
    THEN (IF "color" \in DOMAIN pl[p] THEN pl[p].color ELSE UNDEFINED)
    ELSE IF Cardinality(DOMAIN pl) >= MAX_PLAYERS
    THEN PLAYER_COLORS[1]
    ELSE PLAYER_COLORS[ColorIndex(Cardinality(DOMAIN pl)) + 1]

\* joinGame(gameId, name, p); player ids are fresh uuids: they are numbered in
\* the order they first join
JoinGameAs(p, name) ==
    /\ p \in DOMAIN players \/ p = Cardinality(DOMAIN players) + 1
    /\ players' = JoinTxn(players, p, name, now)
    /\ players' # players
    /\ settled' = FALSE
    /\ UNCHANGED <<status, turnVars, settings, story, now, calls, skipCalls>>
    /\ UNCHANGED <<lastPass, accepted, submitAdvances, fair, pages, rooms>>

\* a join under the short name
JoinGame(p) == JoinGameAs(p, ShortName)

\* what joinGame resolves with: the id and assignedColor
JoinResult(pl, p) == [playerId |-> p, color |-> JoinColor(pl, p)]

\* the whole call joinGame(gameId, name, p) as its caller sees it: the
\* transaction, committed or aborted, and then the return
JoinGameCall(p) ==
    /\ p \in DOMAIN players \/ p = Cardinality(DOMAIN players) + 1
    /\ players' = JoinTxn(players, p, ShortName, now)
    /\ joined' = (p :> JoinResult(players, p)) @@ joined
    /\ settled' = IF players' # players THEN FALSE ELSE settled
    /\ UNCHANGED <<status, turnVars, settings, story, now, calls, skipCalls>>
    /\ UNCHANGED <<lastPass, accepted, submitAdvances, fair, hostPage, inputText,
                   submitted, rooms>>

\* the transaction of a first join fails: joinGame logs and rethrows, and
\* its caller holds the error
JoinGameThrows(p) ==
    /\ p \notin DOMAIN players /\ p = Cardinality(DOMAIN players) + 1
    /\ joined' = (p :> [error |-> "Transaction failed"]) @@ joined
    /\ UNCHANGED <<doc, now, calls, skipCalls, history, hostPage, inputText, submitted,
                   rooms>>

(* ------------------------------ leaveGame ------------------------------ *)
\* update(players/{playerId}, {isActive: false}) by a player that has joined
LeaveGame(p) ==
    /\ p \in DOMAIN players
    /\ players[p].isActive
    /\ players' = [players EXCEPT ![p].isActive = FALSE]
    /\ settled' = FALSE
    /\ UNCHANGED <<status, turnVars, settings, story, now, calls, skipCalls>>
    /\ UNCHANGED <<lastPass, accepted, submitAdvances, fair, pages, rooms>>

\* leaveGame with an id that has no record: update() creates the path
LeaveGameUnknown(p) ==
    /\ p = Cardinality(DOMAIN players) + 1
    /\ players' = players @@ (p :> [isActive |-> FALSE])
    /\ settled' = FALSE
    /\ UNCHANGED <<status, turnVars, settings, story, now, calls, skipCalls>>
    /\ UNCHANGED <<lastPass, accepted, submitAdvances, fair, pages, rooms>>

(* ------------------------------ createGame ----------------------------- *)
\* createGame called by host h draws a code and gets games/{code}; a draw
\* whose snapshot exists is drawn again by the recursive call
CreateGameGet(h, code) ==
    /\ h \notin DOMAIN returned
    /\ \A c \in creates : c.host # h
    /\ code \notin DOMAIN games
    /\ creates' = creates \cup {[host |-> h, code |-> code]}
    /\ UNCHANGED <<doc, now, calls, skipCalls, history, pages, games, returned>>

\* set(gameRef, initialGameState), and the call returns its code
CreateGameSet(c) ==
    /\ games' = Written(c.code, InitialGameState)
    /\ creates' = creates \ {c}
    /\ returned' = (c.host :> c.code) @@ returned
    /\ UNCHANGED <<doc, now, calls, skipCalls, history, pages>>

\* joinGame(code, name, p): the transaction on games/{code}/players, which
\* creates the path where no document is
JoinRoom(code, p) ==
    /\ LET pl == IF code \in DOMAIN games /\ "players" \in DOMAIN games[code]
                 THEN games[code].players ELSE <<>>
       IN  /\ p \in DOMAIN pl \/ p = Cardinality(DOMAIN pl) + 1
           /\ JoinTxn(pl, p, ShortName, now) # pl
           /\ games' = Written(code,
                  IF code \in DOMAIN games
                  THEN ("players" :> JoinTxn(pl, p, ShortName, now)) @@ games[code]
                  ELSE ("players" :> JoinTxn(pl, p, ShortName, now)))
    /\ UNCHANGED <<doc, now, calls, skipCalls, history, pages, creates, returned>>

\* the players stored under games/{code}
PlayersOf(code) ==
    IF code \in DOMAIN games /\ "players" \in DOMAIN games[code]
    THEN games[code].players ELSE <<>>

\* leaveGame(code, p): update(games/{code}/players/{p}, {isActive: false}),
\* which creates the path where nothing is stored
LeaveRoom(code, p) ==
    /\ LET pl == PlayersOf(code)
           record == IF p \in DOMAIN pl
                     THEN [pl[p] EXCEPT !.isActive = FALSE]
                     ELSE [isActive |-> FALSE]
           left == (p :> record) @@ pl
       IN  /\ left # pl
           /\ games' = Written(code,
                  IF code \in DOMAIN games
                  THEN ("players" :> left) @@ games[code]
                  ELSE ("players" :> left))
    /\ UNCHANGED <<doc, now, calls, skipCalls, history, pages, creates, returned>>

\* nextTurn(code) where no session is stored: the update function gets null
\* and returns null (if (!game) return null)
NextTurnRoom(code) ==
    /\ code \notin DOMAIN games
    /\ UNCHANGED vars

(* ------------------------------ startGame ------------------------------ *)
\* get(players): with fewer than 2 active players the call returns at once
StartGameRead ==
    /\ Cardinality(calls) < MaxCalls
    /\ Cardinality(ActiveIds(players)) >= 2
    /\ calls' = calls \cup
         {Call("startGame", "update", NULL, UNDEFINED, ActiveIds(players))}
    /\ UNCHANGED <<doc, now, skipCalls, history, pages, rooms>>

\* update(gameRef, updates), with the shuffle of the ids that were read
StartGameWrite(c) ==
    /\ c.op = "startGame"
    /\ \E shuffled \in Perms(c.ids) :
        /\ currentPlayerId' = Head(shuffled)
        /\ turnBag' = Tail(shuffled)
    /\ status' = "PLAYING"
    /\ lastPlayerId' = NULL
    /\ timer' = START_TIMER
    /\ timerStartedAt' = now
    /\ calls' = calls \ {c}
    /\ skipCalls' = TurnOver(skipCalls)
    /\ lastPass' = Pass("startGame", FALSE)
    /\ settled' = (c.ids = ActiveIds(players))
    /\ UNCHANGED <<settings, story, players, now, accepted, submitAdvances>>

StartGameUpdate(c) == StartGameWrite(c) /\ UNCHANGED <<fair, pages, rooms>>

(* ------------------------------- nextTurn ------------------------------ *)
\* the continuity check of a refill without the swap
RefillNoSwap(shuffled, cur) == shuffled

\* the continuity check writing the second id over the first without the
\* exchange
RefillOverwrite(shuffled, cur) ==
    IF cur # NULL /\ shuffled[1] = cur /\ Len(shuffled) > 1
    THEN [shuffled EXCEPT ![1] = shuffled[2]]
    ELSE shuffled

\* a refill that keeps only the first id of the shuffle
RefillFirstOnly(shuffled, cur) == <<shuffled[1]>>

\* a refilled bag: the shuffle, with the continuity check applied
Refill(shuffled, cur) ==
    IF cur # NULL /\ shuffled[1] = cur /\ Len(shuffled) > 1
    THEN [shuffled EXCEPT ![1] = shuffled[2], ![2] = shuffled[1]]
    ELSE shuffled

\* the stale filter left out
StaleFilterNone(bag, pl) == bag

\* nextBag.filter(id => players[id]?.isActive)
StaleFilter(bag, pl) ==
    SelectSeq(bag, LAMBDA id : id \in DOMAIN pl /\ pl[id].isActive)

\* the bags the update function can reach before nextBag.shift()
NextBags(bag, cur, pl) ==
    LET activeIds == ActiveIds(pl)
        refilled == IF bag = <<>>
                    THEN {Refill(s, cur) : s \in Perms(activeIds)}
                    ELSE {bag}
    IN  UNION { IF StaleFilter(b, pl) = <<>>
                THEN Perms(activeIds)
                ELSE {StaleFilter(b, pl)} : b \in refilled }

\* the branch for fewer than 2 active players, spending the bag
PauseBranchEmptyBag ==
    /\ status' = "PAUSED"
    /\ currentPlayerId' = NULL
    /\ turnBag' = <<>>
    /\ UNCHANGED <<lastPlayerId, timer, timerStartedAt>>
    /\ lastPass' = Pass("pause", FALSE)
    /\ settled' = FALSE

\* the branch of the update function for fewer than 2 active players
PauseBranch ==
    /\ status' = "PAUSED"
    /\ currentPlayerId' = NULL
    /\ UNCHANGED <<turnBag, lastPlayerId, timer, timerStartedAt>>
    /\ lastPass' = Pass("pause", FALSE)
    /\ settled' = FALSE

\* the update function of the transaction on games/{gameId}
NextTurnTxn(twin) ==
    IF Cardinality(ActiveIds(players)) < 2
    THEN PauseBranch
    ELSE /\ \E nextBag \in NextBags(turnBag, currentPlayerId, players) :
              /\ currentPlayerId' = Head(nextBag)
              /\ turnBag' = Tail(nextBag)
              /\ lastPlayerId' = Head(nextBag)
         /\ timerStartedAt' = now
         /\ timer' = IF settings.turnTimeLimit # 0 THEN settings.turnTimeLimit
                     ELSE FALLBACK_TURN_TIME
         /\ status' = status
         /\ lastPass' = Pass("nextTurn", twin)
         /\ settled' = TRUE

\* an observer (the host's skip button or expiry watcher) calls nextTurn
\* while a turn is running; its transaction commits later
InvokeNextTurn ==
    /\ Running
    /\ skipCalls.running + skipCalls.ended < MaxSkips
    /\ skipCalls' = [skipCalls EXCEPT !.running = @ + 1]
    /\ UNCHANGED <<doc, now, calls, history, pages, rooms>>

\* the transaction of such a call commits; forTurn tells whether the turn it
\* was invoked for is still running
NextTurnCommit(forTurn) ==
    /\ skipCalls[forTurn] > 0
    /\ NextTurnTxn(forTurn = "running" /\ skipCalls.running >= 2)
    /\ skipCalls' = TurnOver([skipCalls EXCEPT ![forTurn] = @ - 1])
    /\ UNCHANGED <<settings, story, players, now, calls, accepted, submitAdvances>>

NextTurn(forTurn) == NextTurnCommit(forTurn) /\ UNCHANGED <<fair, pages, rooms>>

\* nextTurn called while no turn is running: the call reads nothing before
\* its transaction, which is taken in the same step
NextTurnIdle ==
    /\ ~Running
    /\ NextTurnTxn(FALSE)
    /\ skipCalls' = TurnOver(skipCalls)
    /\ UNCHANGED <<settings, story, players, now, calls, accepted, submitAdvances, fair, pages, rooms>>

(* --------------------------------- text -------------------------------- *)
\* the characters of a text: a letter in both cases, white space, a mark
\* that ends a sentence and one that does not
Chars == {"a", "A", " ", ".", ","}
TerminalMarks == {".", "!", "?", ":"}
Texts(n) == UNION {[1..k -> Chars] : k \in 0..n}

\* \s, \w, toUpperCase() and toLowerCase() on these characters
IsSpace(ch) == ch = " "
IsWordChar(ch) == ch \in {"a", "A"}
ToUpperCase(ch) == IF ch = "a" THEN "A" ELSE ch
\* the other case of a letter
ToggleCase(ch) == IF ch = "A" THEN "a" ELSE IF ch = "a" THEN "A" ELSE ch
ToLowerCase(ch) == IF ch = "A" THEN "a" ELSE ch

\* the text from its first to its last character that is one of keep
Strip(text, keep) ==
    LET kept == {i \in 1..Len(text) : text[i] \in keep}
    IN  IF kept = {} THEN <<>>
        ELSE SubSeq(text, CHOOSE i \in kept : \A j \in kept : i <= j,
                          CHOOSE i \in kept : \A j \in kept : i >= j)

\* String.prototype.trim()
Trim(text) == Strip(text, {ch \in Chars : ~IsSpace(ch)})

\* trimmed.split(/\s+/), of a text that neither begins nor ends with white
\* space
RECURSIVE Split(_)
Split(text) ==
    LET spaces == {i \in 1..Len(text) : IsSpace(text[i])}
    IN  IF spaces = {} THEN <<text>>
        ELSE LET first == CHOOSE i \in spaces : \A j \in spaces : i <= j
             IN  <<SubSeq(text, 1, first - 1)>>
                 \o Split(Trim(SubSeq(text, first, Len(text))))

\* the count taking every token for a word
CountTokens(input) ==
    IF Trim(input) = <<>> THEN 0 ELSE Len(Split(Trim(input)))

\* countWords of the play page
CountWords(input) ==
    LET trimmed == Trim(input)
    IN  IF trimmed = <<>> THEN 0
        ELSE LET tokens == Split(trimmed)
                 words == SelectSeq([i \in 1..Len(tokens) |-> Strip(tokens[i], {ch \in Chars : IsWordChar(ch)})],
                                    LAMBDA t : Len(t) > 0)
             IN  Len(words)

\* canSubmit of the play page
CanSubmit == CountWords(inputText) >= 1 /\ CountWords(inputText) <= settings.wordLimit

\* capitalizing at the start of the story only
ShouldCapitalizeAtStart(st) == st = <<>>

\* shouldCapitalize of the update function of submitWords
ShouldCapitalize(st) ==
    IF Len(st) > 0
    THEN LET lastSegment == st[Len(st)]
             trimmed == Trim(lastSegment.text)
             lastChar == IF trimmed = <<>> THEN <<>> ELSE <<trimmed[Len(trimmed)]>>
         IN  \E mark \in TerminalMarks : lastChar = <<mark>>
    ELSE TRUE

\* finalText of the update function of submitWords, appending to story st
FinalText(text, st) ==
    LET finalText == Trim(text)
    IN  IF Len(finalText) > 0
        THEN IF ShouldCapitalize(st)
             THEN <<ToUpperCase(finalText[1])>> \o Tail(finalText)
             ELSE <<ToLowerCase(finalText[1])>> \o Tail(finalText)
        ELSE finalText

(* ------------------------------ submitWords ---------------------------- *)
\* the word a player submits where the text does not matter
Word == <<"a">>

\* gameService.submitWords(gameId, p, text): the call starts with
\* get(players/{playerId}) for the colour of the segment
SubmitCall(p, text) ==
    /\ Cardinality(calls) < MaxCalls
    /\ status = "PLAYING" /\ currentPlayerId = p
    /\ calls' = calls \cup
         {[Call("submitWords", "append", p,
                IF p \in DOMAIN players THEN players[p].color ELSE DEFAULT_COLOR,
                {}) EXCEPT !.text = text]}
    /\ UNCHANGED <<doc, now, skipCalls, history>>

\* a call with a text, made while the page shows p's turn
SubmitText(p, text) == SubmitCall(p, text) /\ UNCHANGED <<pages, rooms>>

\* gameService.submitWords(gameId, p, text) as the service takes it: for any
\* playerId, in any status
SubmitWordsBy(p) ==
    /\ Cardinality(calls) < MaxCalls
    /\ Len(story) < MaxStory
    /\ calls' = calls \cup
         {[Call("submitWords", "append", p,
                IF p \in DOMAIN players THEN players[p].color ELSE DEFAULT_COLOR,
                {}) EXCEPT !.text = Word]}
    /\ UNCHANGED <<doc, now, skipCalls, history, pages, rooms>>

\* handleSubmit, offered by the page while it shows p's turn
SubmitWords(p) == Len(story) < MaxStory /\ SubmitText(p, Word)

\* the player whose turn it is types a character (onChange)
Type(ch) ==
    /\ Running /\ calls = {} /\ Len(story) < MaxStory
    /\ Len(inputText) < MaxInput
    /\ inputText' = Append(inputText, ch)
    /\ submitted' = "none"
    /\ UNCHANGED <<doc, now, calls, skipCalls, history, hostPage, joined, rooms>>

\* handleSubmit of the play page of p with the text in the input
HandleSubmit(p) ==
    /\ Len(story) < MaxStory
    /\ status = "PLAYING" /\ currentPlayerId = p
    /\ IF ~CanSubmit
       THEN /\ submitted' = "rejected"
            /\ UNCHANGED <<doc, now, calls, skipCalls, history, hostPage, inputText, joined,
                         rooms>>
       ELSE /\ SubmitCall(p, inputText)
            /\ inputText' = <<>>
            /\ submitted' = "sent"
            /\ UNCHANGED <<hostPage, joined, rooms>>

\* 1. the transaction on games/{gameId}/story appends the segment
AppendSegment(c) ==
    /\ c.op = "submitWords" /\ c.pc = "append"
    /\ story' = Append(story, [authorId |-> c.playerId, color |-> c.color,
                               text |-> FinalText(c.text, story)])
    /\ calls' = (calls \ {c}) \cup {[c EXCEPT !.pc = "advance"]}
    /\ accepted' = IF status = "PLAYING" /\ currentPlayerId = c.playerId
                   THEN accepted + 1 ELSE accepted
    /\ UNCHANGED <<status, turnVars, settings, players, now, skipCalls>>
    /\ UNCHANGED <<lastPass, settled, submitAdvances, fair, pages, rooms>>

\* 2. this.nextTurn(gameId): the transaction on games/{gameId}
AdvanceTurn(c) ==
    /\ c.op = "submitWords" /\ c.pc = "advance"
    /\ NextTurnTxn(FALSE)
    /\ calls' = calls \ {c}
    /\ skipCalls' = TurnOver(skipCalls)
    /\ submitAdvances' = IF currentPlayerId' # NULL THEN submitAdvances + 1 ELSE submitAdvances
    /\ UNCHANGED <<settings, story, players, now, accepted, fair, pages, rooms>>

(* ------------------------------- endGame ------------------------------- *)
\* the host ends the session
EndGame ==
    /\ status \in {"PLAYING", "PAUSED"}
    /\ status' = "ENDED"
    /\ currentPlayerId' = NULL
    /\ timerStartedAt' = NULL
    /\ settled' = FALSE
    /\ skipCalls' = TurnOver(skipCalls)
    /\ UNCHANGED <<turnBag, lastPlayerId, timer, settings, story, players, now, calls>>
    /\ UNCHANGED <<lastPass, accepted, submitAdvances, fair, pages, rooms>>

(* ---------------------------- updateSettings --------------------------- *)
\* the turn time limits the settings dialog can save
TurnTimeLimits == {MIN_TURN_TIME, DEFAULT_TURN_TIME, MAX_TURN_TIME}

\* the host saves a turn time limit
UpdateSettings(limit) ==
    /\ settings.turnTimeLimit # limit
    /\ settings' = [settings EXCEPT !.turnTimeLimit = limit]
    /\ UNCHANGED <<status, turnVars, story, players, now, calls, skipCalls, history, pages, rooms>>

(* -------------------------------- clock -------------------------------- *)
\* Date.now() moves on
Tick ==
    /\ now < MaxTime
    /\ now' = now + 1
    /\ UNCHANGED <<doc, calls, skipCalls, history, pages, rooms>>

(* ---------------------------- the host page ---------------------------- *)
\* the comparison of the leaderboard leaving out the turn counts
CompareTimes(a, b, pl) ==
    Stat(pl, a, "totalResponseTime") - Stat(pl, b, "totalResponseTime")

\* the comparison function of the leaderboard's sort
Compare(a, b, pl) ==
    LET timeA == Stat(pl, a, "totalResponseTime")
        timeB == Stat(pl, b, "totalResponseTime")
    IN  IF timeA # timeB THEN timeA - timeB
        ELSE Stat(pl, a, "turnCount") - Stat(pl, b, "turnCount")

\* Array.prototype.sort with that comparison (a stable sort), of the ids in
\* the set ids taken in the order of Object.values
RECURSIVE Sort(_, _)
Sort(ids, pl) ==
    IF ids = {} THEN <<>>
    ELSE LET last == CHOOSE id \in ids : \A other \in ids : other <= id
             sorted == Sort(ids \ {last}, pl)
             after == Cardinality({i \in 1..Len(sorted) : Compare(sorted[i], last, pl) <= 0})
         IN  SubSeq(sorted, 1, after) \o <<last>> \o SubSeq(sorted, after + 1, Len(sorted))

\* sortedPlayers of Leaderboard
Leaderboard(pl) == Sort({id \in DOMAIN pl : pl[id].isActive}, pl)

\* the host page, past the lobby, renders the leaderboard
Render ==
    /\ status # "LOBBY"
    /\ sortedPlayers' = Leaderboard(players)
    /\ UNCHANGED <<doc, now, calls, skipCalls, history, hasTimedOut, timeLeft, playPage, rooms>>

\* useGameTimer: the time left of the running turn, in milliseconds, as
\* tick computes it from the session the page was last sent (0 where no
\* countdown runs)
TimeLeft ==
    IF status = "PLAYING" /\ timerStartedAt # NULL
    THEN LET limit == IF settings.turnTimeLimit # 0 THEN settings.turnTimeLimit
                      ELSE FALLBACK_TURN_TIME
             remaining == limit * 1000 - (now - timerStartedAt)
         IN  IF remaining > 0 THEN remaining ELSE 0
    ELSE 0

\* the expiry watcher, with the timeLeft of the render it runs after, finds
\* the turn over and has not called nextTurn for it
WatcherFires ==
    /\ status = "PLAYING"
    /\ timeLeft <= 500
    /\ currentPlayerId # NULL
    /\ ~hasTimedOut

\* the effect has something to do
WatcherPending == WatcherFires \/ (timeLeft > 1000 /\ hasTimedOut)

\* the effect of GameView on timeLeft, status and currentPlayerId: it calls
\* nextTurn once the turn is over and latches, and releases the latch when
\* more than a second is left
TimeoutEffect ==
    /\ WatcherPending
    /\ WatcherFires => skipCalls.running + skipCalls.ended < MaxSkips
    /\ hasTimedOut' = IF timeLeft > 1000 THEN FALSE ELSE TRUE
    /\ skipCalls' = IF WatcherFires THEN [skipCalls EXCEPT !.running = @ + 1]
                    ELSE skipCalls
    /\ UNCHANGED <<doc, now, calls, history, sortedPlayers, timeLeft, playPage, rooms>>

\* setTimeLeft of useGameTimer (tick, or 0 where no countdown runs) takes
\* effect in the next render, after the effects of the render that called it
SetTimeLeft ==
    /\ ~WatcherPending
    /\ timeLeft # TimeLeft
    /\ timeLeft' = TimeLeft
    /\ UNCHANGED <<doc, now, calls, skipCalls, history, hasTimedOut, sortedPlayers,
                   playPage, rooms>>

\* the transaction of a nextTurn call does not commit (runTransaction
\* rejects; the call is not awaited and nothing handles the rejection)
NextTurnFails(forTurn) ==
    /\ skipCalls[forTurn] > 0
    /\ skipCalls' = [skipCalls EXCEPT ![forTurn] = @ - 1]
    /\ UNCHANGED <<doc, now, calls, history, pages, rooms>>

\* the clock moves on by the shortest turn time limit (Date.now() counts
\* milliseconds) while a countdown runs, once the host page has rendered
Elapse ==
    /\ now < MaxWaits * MIN_TURN_TIME * 1000
    /\ TimeLeft > 0
    /\ ~WatcherPending /\ timeLeft = TimeLeft
    /\ now' = now + MIN_TURN_TIME * 1000
    /\ UNCHANGED <<doc, calls, skipCalls, history, pages, rooms>>

(* ---------------------------- specification ---------------------------- *)
Next ==
    \/ \E p \in PlayerIds : JoinGame(p)
    \/ \E p \in PlayerIds : LeaveGame(p)
    \/ StartGameRead
    \/ \E c \in calls : StartGameUpdate(c)
    \/ InvokeNextTurn
    \/ \E forTurn \in {"running", "ended"} : NextTurn(forTurn)
    \/ NextTurnIdle
    \/ \E p \in PlayerIds : SubmitWords(p)
    \/ \E c \in calls : AppendSegment(c)
    \/ \E c \in calls : AdvanceTurn(c)

\* the operations of gameService that are defined in the source
Spec == Init /\ [][Next]_vars

\* the same, and the host ending the session
NextOrEnd ==
    \/ Next
    \/ EndGame

SpecWithEnd == Init /\ [][NextOrEnd]_vars

\* the lobby and the start of play, with the host's settings and the clock
NextStart ==
    \/ \E p \in PlayerIds : JoinGame(p)
    \/ \E p \in PlayerIds : LeaveGame(p)
    \/ StartGameRead
    \/ \E c \in calls : StartGameUpdate(c)
    \/ \E limit \in TurnTimeLimits : UpdateSettings(limit)
    \/ Tick

SpecStart == Init /\ [][NextStart]_vars

\* players joining, leaving and rejoining under the names they type
NextRejoin ==
    \/ \E p \in PlayerIds : \E name \in Names : JoinGameAs(p, name)
    \/ \E p \in PlayerIds : LeaveGame(p)
    \/ Tick

SpecRejoin == Init /\ [][NextRejoin]_vars

\* the turn a scheduling step gives, counted: a step that read an empty bag
\* (or startGame's shuffle) begins a new block
Counted(shuffle) ==
    fair' = [block |-> IF shuffle THEN <<currentPlayerId'>>
                       ELSE Append(fair.block, currentPlayerId'),
             taken |-> [fair.taken EXCEPT ![currentPlayerId'] = @ + 1]]

\* a game of a fixed set of players: they join in the lobby, the host
\* starts, and from then on only turn advances happen
NextPlay ==
    \/ \E p \in PlayerIds : status = "LOBBY" /\ calls = {} /\ JoinGame(p)
    \/ status = "LOBBY" /\ StartGameRead
    \/ \E c \in calls : StartGameWrite(c) /\ Counted(TRUE) /\ UNCHANGED <<pages, rooms>>
    \/ InvokeNextTurn
    \/ \E forTurn \in {"running", "ended"} :
          /\ \A p \in PlayerIds : fair.taken[p] < MaxTurns
          /\ NextTurnCommit(forTurn)
          /\ Counted(turnBag = <<>>)
          /\ UNCHANGED <<pages, rooms>>

SpecPlay == Init /\ [][NextPlay]_vars

\* a game watched by the host page: the players join in the lobby, the host
\* starts, changes the turn time limit and skips players, time passes, and
\* the page's expiry watcher calls nextTurn
NextTimer ==
    \/ \E p \in PlayerIds : status = "LOBBY" /\ calls = {} /\ JoinGame(p)
    \/ status = "LOBBY" /\ StartGameRead
    \/ \E c \in calls : StartGameUpdate(c)
    \/ \E limit \in TurnTimeLimits : UpdateSettings(limit)
    \/ Elapse
    \/ SetTimeLeft
    \/ TimeoutEffect
    \/ InvokeNextTurn
    \/ \E forTurn \in {"running", "ended"} : NextTurn(forTurn)

SpecTimer == Init /\ [][NextTimer]_vars

\* the same game left to the expiry watcher (no change of settings, no
\* manual skip), where a nextTurn transaction may fail; the page's effects
\* and the transactions in flight are not held up forever
NextExpiry ==
    \/ \E p \in PlayerIds : status = "LOBBY" /\ calls = {} /\ JoinGame(p)
    \/ status = "LOBBY" /\ StartGameRead
    \/ \E c \in calls : StartGameUpdate(c)
    \/ Elapse
    \/ SetTimeLeft
    \/ TimeoutEffect
    \/ NextTurn("running")
    \/ NextTurnFails("running")

SpecExpiry ==
    /\ Init /\ [][NextExpiry]_vars
    /\ WF_vars(TimeoutEffect)
    /\ WF_vars(SetTimeLeft)
    /\ WF_vars(\E c \in calls : StartGameUpdate(c))
    /\ WF_vars(NextTurn("running"))

\* the keys the player presses
Keys == {"a", " ", "."}

\* a game in which the player whose turn it is types into the input of the
\* play page and submits
NextInput ==
    \/ \E p \in PlayerIds : status = "LOBBY" /\ calls = {} /\ JoinGame(p)
    \/ status = "LOBBY" /\ StartGameRead
    \/ \E c \in calls : StartGameUpdate(c)
    \/ \E ch \in Keys : Type(ch)
    \/ \E p \in PlayerIds : HandleSubmit(p)
    \/ \E c \in calls : AppendSegment(c)
    \/ \E c \in calls : AdvanceTurn(c)

SpecInput == Init /\ [][NextInput]_vars

\* a game in which the players submit texts of every kind
NextText ==
    \/ \E p \in PlayerIds : status = "LOBBY" /\ calls = {} /\ JoinGame(p)
    \/ status = "LOBBY" /\ StartGameRead
    \/ \E c \in calls : StartGameUpdate(c)
    \/ \E p \in PlayerIds : \E text \in Texts(MaxText) :
          Len(story) < MaxSegments /\ SubmitText(p, text)
    \/ \E c \in calls : AppendSegment(c)
    \/ \E c \in calls : AdvanceTurn(c)

SpecText == Init /\ [][NextText]_vars

\* the ledgers a player's record can hold: each of totalResponseTime and
\* turnCount absent or a number
Ledgers ==
    LET Field(name) == {<<>>} \cup {(name :> n) : n \in 0..MaxStat}
    IN  {time @@ count : time \in Field("totalResponseTime"), count \in Field("turnCount")}

\* the rooms of NumPlayers players with ledgers
Rosters ==
    {[p \in PlayerIds |-> NewPlayer(p, ShortName, PLAYER_COLORS[p], 1) @@ ledger[p]] :
        ledger \in [PlayerIds -> Ledgers]}

\* a session whose players hold ledgers of every kind
InitBoard ==
    /\ status = "LOBBY"
    /\ currentPlayerId = NULL
    /\ turnBag = <<>>
    /\ lastPlayerId = NULL
    /\ timer = 0
    /\ timerStartedAt = NULL
    /\ settings = [wordLimit |-> DEFAULT_WORD_LIMIT, turnTimeLimit |-> DEFAULT_TURN_TIME]
    /\ story = <<>>
    /\ players \in Rosters
    /\ now = 1
    /\ calls = {}
    /\ skipCalls = [running |-> 0, ended |-> 0]
    /\ lastPass = [op |-> "none", refill |-> FALSE, stale |-> FALSE,
                   emptied |-> FALSE, active |-> 0,
                   settled |-> FALSE, repeat |-> FALSE, twin |-> FALSE]
    /\ settled = FALSE
    /\ accepted = 0
    /\ submitAdvances = 0
    /\ fair = [block |-> <<>>, taken |-> [p \in PlayerIds |-> 0]]
    /\ hasTimedOut = FALSE
    /\ sortedPlayers = <<>>
    /\ timeLeft = 0
    /\ inputText = <<>>
    /\ submitted = "none"
    /\ joined = <<>>
    /\ games = <<>>
    /\ creates = {}
    /\ returned = <<>>

\* the host starts the game and watches the leaderboard while players leave
\* and come back
NextBoard ==
    \/ status = "LOBBY" /\ StartGameRead
    \/ \E c \in calls : StartGameUpdate(c)
    \/ \E p \in PlayerIds : status # "LOBBY" /\ LeaveGame(p)
    \/ \E p \in PlayerIds : status # "LOBBY" /\ JoinGame(p)
    \/ Render

SpecBoard == InitBoard /\ [][NextBoard]_vars

\* hosts creating rooms while players join under the codes they typed
NextCreate ==
    \/ \E h \in Hosts : \E code \in Codes : CreateGameGet(h, code)
    \/ \E c \in creates : CreateGameSet(c)
    \/ \E code \in Codes : \E p \in PlayerIds : JoinRoom(code, p)

SpecCreate == Init /\ [][NextCreate]_vars

\* the records under games/ that were not created by joinGame
Strangers ==
    {<<code, p>> \in Codes \X PlayerIds :
        p \in DOMAIN PlayersOf(code) /\ "id" \notin DOMAIN PlayersOf(code)[p]}

\* hosts creating rooms while clients call joinGame, leaveGame and nextTurn
\* with the codes and the ids they hold
NextCodes ==
    \/ \E h \in Hosts : \E code \in Codes : CreateGameGet(h, code)
    \/ \E c \in creates : CreateGameSet(c)
    \/ \E code \in Codes : \E p \in PlayerIds : JoinRoom(code, p)
    \/ \E code \in Codes : \E p \in PlayerIds :
          /\ p \notin DOMAIN PlayersOf(code) => Cardinality(Strangers) < MaxStrangers
          /\ LeaveRoom(code, p)
    \/ \E code \in Codes : NextTurnRoom(code)

SpecCodes == Init /\ [][NextCodes]_vars

\* a game whose turns keep advancing: players join and leave, in the lobby
\* and during the game, the last of them only once the game was started; the
\* host starts; observers' nextTurn calls are made while a turn runs, and
\* commit
NextTurns ==
    \/ \E p \in PlayerIds : (p = NumPlayers => status # "LOBBY") /\ JoinGame(p)
    \/ \E p \in PlayerIds : LeaveGame(p)
    \/ status = "LOBBY" /\ StartGameRead
    \/ \E c \in calls : StartGameUpdate(c)
    \/ InvokeNextTurn
    \/ \E forTurn \in {"running", "ended"} : NextTurn(forTurn)

SpecTurns ==
    /\ Init /\ [][NextTurns]_vars
    /\ WF_vars(InvokeNextTurn)
    /\ WF_vars(\E forTurn \in {"running", "ended"} : NextTurn(forTurn))

\* the session with submitWords called for any playerId
NextAuthors ==
    \/ \E p \in PlayerIds : JoinGame(p)
    \/ status = "LOBBY" /\ StartGameRead
    \/ \E c \in calls : StartGameUpdate(c)
    \/ \E p \in PlayerIds : SubmitWordsBy(p)
    \/ \E c \in calls : AppendSegment(c)
    \/ \E c \in calls : AdvanceTurn(c)

SpecAuthors == Init /\ [][NextAuthors]_vars

\* the players who are away
Away(pl) == DOMAIN pl \ ActiveIds(pl)

\* a room that is filled: more ids than it can hold join, and players leave
\* and rejoin
NextRoom ==
    \/ \E p \in JoinerIds : JoinGame(p)
    \/ \E p \in JoinerIds : Cardinality(Away(players)) < MaxAway /\ LeaveGame(p)

SpecRoom == Init /\ [][NextRoom]_vars

\* the room as the callers of joinGame see it: more ids than it can hold
\* join, players leave and rejoin
NextJoin ==
    \/ \E p \in JoinerIds : JoinGameCall(p)
    \/ \E p \in JoinerIds : JoinGameThrows(p)
    \/ \E p \in JoinerIds : Cardinality(Away(players)) < MaxAway /\ LeaveGame(p)

SpecJoin == Init /\ [][NextJoin]_vars

\* the same, and leaveGame calls with ids that never joined
NextRoomOrLeave ==
    \/ NextRoom
    \/ \E p \in JoinerIds :
          /\ Cardinality(Away(players)) < MaxAway
          /\ Cardinality({q \in DOMAIN players : "id" \notin DOMAIN players[q]}) < MaxStrangers
          /\ LeaveGameUnknown(p)

SpecRoomOrLeave == Init /\ [][NextRoomOrLeave]_vars

(* ------------------------------- properties ---------------------------- *)
\* C1: a step of a submitWords call taken against a document in which its
\* caller is not currentPlayerId (or the status is not PLAYING) appends no
\* segment and advances neither currentPlayerId nor turnBag
C1_StaleSubmissionAborts ==
    [][\A c \in calls :
          (/\ c.op = "submitWords"
           /\ ~(status = "PLAYING" /\ currentPlayerId = c.playerId)
           /\ (AppendSegment(c) \/ AdvanceTurn(c)))
              => UNCHANGED <<story, currentPlayerId, turnBag>>]_vars

\* C2: in no state is a submission's segment in the story while the turn has
\* not been advanced for it and currentPlayerId is still the submitter
C2_SubmitWordsAtomic ==
    \A c \in calls :
        ~(c.op = "submitWords" /\ c.pc = "advance" /\ currentPlayerId = c.playerId)

\* C3: the story is as long as the number of accepted submissions (those
\* appended while their author held the turn), and submissions advance the
\* turn at most once per accepted submission
C3_OneSegmentOneAdvance ==
    /\ Len(story) = accepted
    /\ submitAdvances <= accepted

\* C4: after an observer's skip has ended a turn for which a second
\* observer's skip was in flight, the commit of that second skip changes
\* nothing in the document
C4_RedundantSkipNoOp ==
    [][(lastPass.twin /\ NextTurn("ended")) => UNCHANGED doc]_vars

\* C5: currentPlayerId is non-null if and only if status = PLAYING
C5_CurrentPlayerIffPlaying ==
    (currentPlayerId # NULL) <=> (status = "PLAYING")

\* C6: once status is ENDED no step changes it or sets currentPlayerId to a
\* non-null value
C6_EndedIsTerminal ==
    [][status = "ENDED" => (status' = "ENDED" /\ currentPlayerId' = NULL)]_vars

\* C7: status changes only LOBBY to PLAYING, PLAYING to PAUSED, PAUSED to
\* PLAYING, and PLAYING or PAUSED to ENDED, and the write of startGame
\* changes it only from LOBBY
C7_StatusTransitions ==
    [][/\ status' # status =>
              <<status, status'>> \in {<<"LOBBY", "PLAYING">>, <<"PLAYING", "PAUSED">>,
                                       <<"PAUSED", "PLAYING">>, <<"PLAYING", "ENDED">>,
                                       <<"PAUSED", "ENDED">>}
       /\ \A c \in calls : (StartGameUpdate(c) /\ status' # status) => status = "LOBBY"]_vars

\* C8: in a PLAYING session a step that takes the active players from 2 to 1
\* sets status to PAUSED and currentPlayerId to null
C8_AutoPauseOnLeave ==
    [][(/\ status = "PLAYING"
        /\ Cardinality(ActiveIds(players)) = 2
        /\ Cardinality(ActiveIds(players')) = 1)
           => (status' = "PAUSED" /\ currentPlayerId' = NULL)]_vars

\* C9: a nextTurn that has committed against a document with at least 2
\* active players has selected an active player and left only active ids in
\* turnBag
C9_AdvanceSelectsActive ==
    (lastPass.op = "nextTurn" /\ settled)
        => /\ currentPlayerId \in ActiveIds(players)
           /\ Range(turnBag) \subseteq ActiveIds(players)

\* C9 case: a turn advance has committed against a bag that held the id of a
\* player who had left, and the player set has not changed since
C9_Witness ==
    /\ lastPass.op = "nextTurn"
    /\ lastPass.stale
    /\ lastPass.active >= 2
    /\ settled

\* C10: with at least 3 active players, a turn advance that ends a turn the
\* scheduler began with the player set unchanged since never selects the
\* player whose turn it ends, reshuffle or not
C10_AdjacencyGuard ==
    (lastPass.op = "nextTurn" /\ lastPass.settled /\ lastPass.active >= 3)
        => ~lastPass.repeat

\* C10 case: such an advance has reshuffled an empty bag
C10_Witness ==
    /\ lastPass.op = "nextTurn"
    /\ lastPass.refill
    /\ lastPass.settled
    /\ lastPass.active >= 3
    /\ currentPlayerId # NULL

\* C11: the write of startGame that sets status PLAYING commits against a
\* document with at least 2 active players, one of whom it makes
\* currentPlayerId
C11_StartNeedsTwoActive ==
    [][\A c \in calls :
          StartGameUpdate(c)
              => /\ Cardinality(ActiveIds(players')) >= 2
                 /\ currentPlayerId' \in ActiveIds(players')]_vars

\* C12: a startGame whose write commits against the active players it read
\* makes currentPlayerId the head and turnBag the rest of one permutation of
\* exactly the active ids, timerStartedAt the current time, and timer the
\* session's settings.turnTimeLimit
C12_StartGameWrites ==
    [][\A c \in calls :
          (StartGameUpdate(c) /\ c.ids = ActiveIds(players))
              => /\ \E shuffled \in Perms(ActiveIds(players')) :
                       /\ currentPlayerId' = Head(shuffled)
                       /\ turnBag' = Tail(shuffled)
                 /\ timerStartedAt' = now'
                 /\ timer' = settings'.turnTimeLimit]_vars

\* C13: a turn advance that selects a player sets lastPlayerId to the value
\* currentPlayerId had before the advance
C13_LastPlayerIsPrevious ==
    [][((\/ \E forTurn \in {"running", "ended"} : NextTurn(forTurn)
         \/ NextTurnIdle
         \/ \E c \in calls : AdvanceTurn(c))
        /\ currentPlayerId' # NULL)
           => lastPlayerId' = currentPlayerId]_vars

\* C14: the commit of a skip of player p's running turn adds exactly
\* settings.turnTimeLimit * 1000 to p.totalResponseTime and 1 to
\* p.turnCount, and leaves the story unchanged
C14_SkipPenalty ==
    [][(NextTurn("running") /\ currentPlayerId \in DOMAIN players)
           => /\ HasStat(players', currentPlayerId, "totalResponseTime")
              /\ Stat(players', currentPlayerId, "totalResponseTime")
                   = Stat(players, currentPlayerId, "totalResponseTime")
                       + settings.turnTimeLimit * 1000
              /\ HasStat(players', currentPlayerId, "turnCount")
              /\ Stat(players', currentPlayerId, "turnCount")
                   = Stat(players, currentPlayerId, "turnCount") + 1
              /\ story' = story]_vars

\* C15: the commit of a submission by the player who holds the turn adds
\* now - timerStartedAt to that player's totalResponseTime and 1 to their
\* turnCount, and sets their lastTurnTime to that response time
C15_SubmissionLedger ==
    [][\A c \in calls :
          (AppendSegment(c) /\ status = "PLAYING" /\ currentPlayerId = c.playerId)
              => /\ HasStat(players', c.playerId, "totalResponseTime")
                 /\ Stat(players', c.playerId, "totalResponseTime")
                      = Stat(players, c.playerId, "totalResponseTime") + (now - timerStartedAt)
                 /\ Stat(players', c.playerId, "turnCount")
                      = Stat(players, c.playerId, "turnCount") + 1
                 /\ HasStat(players', c.playerId, "lastTurnTime")
                 /\ Stat(players', c.playerId, "lastTurnTime") = now - timerStartedAt]_vars

\* C16: the record of a new player who joins a PLAYING session with active
\* players holds a totalResponseTime equal to the largest totalResponseTime
\* of those active players
C16_LateJoinerSeeding ==
    [][\A p \in DOMAIN players' \ DOMAIN players :
          (status = "PLAYING" /\ ActiveIds(players) # {})
              => /\ HasStat(players', p, "totalResponseTime")
                 /\ \E q \in ActiveIds(players) :
                       /\ Stat(players', p, "totalResponseTime")
                            = Stat(players, q, "totalResponseTime")
                       /\ \A r \in ActiveIds(players) :
                             Stat(players, r, "totalResponseTime")
                                 <= Stat(players, q, "totalResponseTime")]_vars

\* C17: when the join of a new player into a PLAYING session has committed,
\* the player's id is in turnBag exactly once or is currentPlayerId
C17_LateJoinerInBag ==
    [][\A p \in DOMAIN players' \ DOMAIN players :
          status = "PLAYING"
              => \/ currentPlayerId' = p
                 \/ Cardinality({i \in 1..Len(turnBag') : turnBag'[i] = p}) = 1]_vars

\* C18: a joinGame with an id already in players sets that record's
\* isActive to true, its name to the (cut) name given and its lastSeen to
\* the time of the call, and nothing else: its color and ledger fields stay,
\* no record is created, every other record stays, and the returned color
\* is the stored one
C18_RejoinIdempotent ==
    [][\A p \in DOMAIN players : \A name \in Names :
          JoinGameAs(p, name)
              => /\ DOMAIN players' = DOMAIN players
                 /\ \A q \in DOMAIN players \ {p} : players'[q] = players[q]
                 /\ players'[p].isActive
                 /\ players'[p].name = Truncate(name)
                 /\ players'[p].lastSeen = now
                 /\ DOMAIN players'[p] = DOMAIN players[p]
                 /\ \A f \in DOMAIN players[p] \ {"isActive", "name", "lastSeen"} :
                       players'[p][f] = players[p][f]
                 /\ JoinColor(players, p) = players'[p].color]_vars

\* C18 case: the first player has left and rejoined later under the long
\* name, after the second player joined
C18_Witness ==
    /\ DOMAIN players = {1, 2}
    /\ players[1].isActive
    /\ players[1].lastSeen > players[2].lastSeen
    /\ players[1].name = Truncate(LongName)
    /\ players[1].color = PLAYER_COLORS[1]
    /\ players[2].color = PLAYER_COLORS[2]

\* C19: players never holds more than MAX_PLAYERS records, and against a
\* full room the transaction of a joinGame by a new id writes nothing
C19_MaxPlayers ==
    /\ Cardinality(DOMAIN players) <= MAX_PLAYERS
    /\ Cardinality(DOMAIN players) >= MAX_PLAYERS
           => \A p \in JoinerIds \ DOMAIN players : \A name \in Names :
                 JoinTxn(players, p, name, now) = players

C22_TimerNullWhenNotRunning ==
    status \in {"LOBBY", "PAUSED", "ENDED"} => timerStartedAt = NULL

\* C30: a nextTurn that commits against fewer than 2 active players sets
\* status to PAUSED and currentPlayerId to null and leaves turnBag,
\* lastPlayerId, story, players and settings unchanged
C30_PauseShortCircuit ==
    [][(/\ Cardinality(ActiveIds(players)) < 2
        /\ \/ \E forTurn \in {"running", "ended"} : NextTurn(forTurn)
           \/ NextTurnIdle
           \/ \E c \in calls : AdvanceTurn(c))
           => /\ status' = "PAUSED"
              /\ currentPlayerId' = NULL
              /\ UNCHANGED <<turnBag, lastPlayerId, story, players, settings>>]_vars

\* C30 case: a turn advance has paused a session whose bag held a player
C30_Witness ==
    /\ lastPass.op = "pause"
    /\ status = "PAUSED"
    /\ currentPlayerId = NULL
    /\ turnBag # <<>>
    /\ Cardinality(ActiveIds(players)) < 2

\* the ids of a sequence are all different
Distinct(seq) == \A i, j \in 1..Len(seq) : i # j => seq[i] # seq[j]

\* C23: in a game of a fixed set of n active players in which only turn
\* advances happen, the turns given since a shuffle go to different active
\* players, the players still in the bag are the active players not yet
\* served, so that a block is complete after n turns, one for each active
\* player; and the numbers of turns of two active players differ by at most 1
C23_FairPlay ==
    status = "PLAYING"
        => /\ Distinct(fair.block)
           /\ Range(fair.block) \subseteq ActiveIds(players)
           /\ fair.block[Len(fair.block)] = currentPlayerId
           /\ Range(turnBag) = ActiveIds(players) \ Range(fair.block)
           /\ Distinct(turnBag)
           /\ \A p, q \in ActiveIds(players) : fair.taken[p] - fair.taken[q] <= 1

\* C23 case: three players have completed two blocks, the second begun by a
\* shuffle that the continuity check changed or not
C23_Witness ==
    /\ status = "PLAYING"
    /\ Cardinality(ActiveIds(players)) = 3
    /\ turnBag = <<>>
    /\ Len(fair.block) = 3
    /\ \A p \in ActiveIds(players) : fair.taken[p] = 2


\* C21: a change of settings.turnTimeLimit while a turn is running does not
\* alter that turn: as long as the turn (its player and its start) and the
\* clock are the same, the time the countdown has left is the same, so the
\* turn expires by the limit in force when it started
C21_SettingsNotRetroactive ==
    [][(/\ Running
        /\ status' = status
        /\ currentPlayerId' = currentPlayerId
        /\ timerStartedAt' = timerStartedAt
        /\ now' = now) => TimeLeft' = TimeLeft]_vars

\* C24: a turn whose time has run out, and whose player does not submit, is
\* eventually skipped while the host page observes the room: the turn
\* advances or the session pauses, also when a nextTurn call made for it
\* did not take effect
C24_ExpiredTurnSkipped ==
    (Running /\ TimeLeft = 0) ~> (~Running \/ TimeLeft > 0)

\* the words of a text as the rule counts them: the runs of characters
\* other than white space that hold a word character
Words(text) ==
    Cardinality({i \in 1..Len(text) :
        /\ ~IsSpace(text[i])
        /\ i = 1 \/ IsSpace(text[i - 1])
        /\ \E j \in i..Len(text) :
              /\ IsWordChar(text[j])
              /\ \A k \in i..j : ~IsSpace(text[k])})

\* C25: a text of zero words or of more than settings.wordLimit words is
\* rejected by the page: handleSubmit leaves the input and the session as
\* they are, and every submitWords call in flight and every segment
\* carries a text of 1 to wordLimit words
C25_WordCountValidation ==
    /\ \A c \in calls : c.op = "submitWords"
          => Words(c.text) >= 1 /\ Words(c.text) <= settings.wordLimit
    /\ \A i \in 1..Len(story) :
          Words(story[i].text) >= 1 /\ Words(story[i].text) <= settings.wordLimit
    /\ submitted = "rejected" /\ calls = {} /\ story = <<>>
          => Words(inputText) = 0 \/ Words(inputText) > settings.wordLimit
    /\ submitted = "sent" => inputText = <<>>

C25_Witness ==
    /\ submitted = "rejected"
    /\ Words(inputText) > settings.wordLimit
    /\ status = "PLAYING" /\ calls = {} /\ story = <<>>

\* the text the rule stores for an input appended after the story st
Normalized(text, st) ==
    LET input == Trim(text)
        capital == \/ st = <<>>
                   \/ /\ Trim(st[Len(st)].text) # <<>>
                      /\ Trim(st[Len(st)].text)[Len(Trim(st[Len(st)].text))]
                             \in {".", "!", "?", ":"}
    IN  [i \in 1..Len(input) |->
            IF i > 1 THEN input[i]
            ELSE IF capital THEN ToUpperCase(input[1]) ELSE ToLowerCase(input[1])]

C27_NormalizationIdempotent ==
    \A i \in 1..Len(story) :
        FinalText(story[i].text, SubSeq(story, 1, i - 1)) = story[i].text

C27_Witness ==
    /\ Len(story) = 2
    /\ story[1].text = <<"A", ",">>
    /\ story[2].text = <<"a">>

\* C28: the list the leaderboard displays holds exactly the active players,
\* each once, in ascending order of totalResponseTime with ties in
\* ascending order of turnCount, a missing value counting as 0
C28_LeaderboardRanking ==
    [][sortedPlayers' # sortedPlayers =>
        /\ Range(sortedPlayers') = ActiveIds(players)
        /\ Len(sortedPlayers') = Cardinality(ActiveIds(players))
        /\ \A i, j \in 1..Len(sortedPlayers') : i < j =>
              LET a == players[sortedPlayers'[i]]
                  b == players[sortedPlayers'[j]]
                  Of(r, f) == IF f \in DOMAIN r THEN r[f] ELSE 0
              IN  \/ Of(a, "totalResponseTime") < Of(b, "totalResponseTime")
                  \/ /\ Of(a, "totalResponseTime") = Of(b, "totalResponseTime")
                     /\ Of(a, "turnCount") <= Of(b, "turnCount")]_vars

C28_Witness ==
    /\ sortedPlayers = <<3, 1>>
    /\ ~players[2].isActive
    /\ Stat(players, 1, "totalResponseTime") = 0
    /\ "totalResponseTime" \notin DOMAIN players[3]
    /\ Stat(players, 1, "turnCount") = 1
    /\ "turnCount" \notin DOMAIN players[3]

\* C29: createGame never returns the code of a session that already exists
\* and never overwrites a document: when a call writes and returns, nothing
\* was stored under its code, also when another createGame call drew the
\* same code or a player has written under it
C29_CreateGameNoOverwrite ==
    [][\A c \in creates : c \notin creates' => c.code \notin DOMAIN games]_vars

\* C31: with at least 2 active players, a turn advance whose stale filter
\* emptied a bag that was not empty (every queued player had left) does not
\* select the player whose turn it ends
C31_EmergencyRefillAdjacency ==
    (lastPass.op = "nextTurn" /\ lastPass.emptied /\ lastPass.active >= 2)
        => ~lastPass.repeat

\* C32: the host's expiry watcher calls nextTurn for a turn only once the
\* turn's countdown has run down (now - timerStartedAt within 0.5 s of the
\* turn time limit, or beyond), also on the first render after status has
\* become PLAYING
C32_WatcherFiresOnExpiry ==
    [][(~hasTimedOut /\ hasTimedOut')
          => /\ status = "PLAYING" /\ timerStartedAt # NULL
             /\ now - timerStartedAt >= settings.turnTimeLimit * 1000 - 500]_vars

\* C33: whenever status is PLAYING, currentPlayerId is the id of a player
\* whose isActive is true, also after the current player has left
C33_CurrentPlayerActive ==
    status = "PLAYING" => currentPlayerId \in ActiveIds(players)

\* C34: turnBag never holds a player id twice and never holds
\* currentPlayerId
C34_BagNoDuplicates ==
    /\ Distinct(turnBag)
    /\ currentPlayerId \notin Range(turnBag)

\* C34 case: after a start, a submission and a leave, a turn advance has
\* refilled a bag that its stale filter had emptied, and players are queued
C34_Witness ==
    /\ status = "PLAYING"
    /\ story # <<>>
    /\ lastPass.op = "nextTurn" /\ lastPass.emptied
    /\ turnBag # <<>>

\* C35: while turns keep advancing, a player who is active in a PLAYING
\* session, a player who joined or rejoined during the game included,
\* becomes currentPlayerId unless the player leaves or the session stops
\* PLAYING
C35_EveryActivePlayerGetsATurn ==
    \A p \in PlayerIds :
        (status = "PLAYING" /\ p \in ActiveIds(players))
            ~> (currentPlayerId = p \/ status # "PLAYING" \/ p \notin ActiveIds(players))

\* C35 case: a player who joined during the game, and is not queued, has
\* been given the turn by a reshuffle
C35_Witness ==
    /\ status = "PLAYING"
    /\ currentPlayerId = NumPlayers
    /\ lastPass.op = "nextTurn" /\ lastPass.refill
    /\ Cardinality(ActiveIds(players)) >= 2

\* C36: the author of every story segment is a player of the session, and
\* the segment's colour is that player's stored colour (no operation of the
\* model writes a segment of the host)
C36_SegmentsHaveRegisteredAuthors ==
    \A i \in 1..Len(story) :
        /\ story[i].authorId \in DOMAIN players
        /\ story[i].color = players[story[i].authorId].color

\* C37: a caller that joinGame has returned a result to has a record in
\* players, and the colour returned is the colour of that record
C37_JoinReportsCommittedJoin ==
    \A p \in DOMAIN joined :
        "playerId" \in DOMAIN joined[p]
            => /\ p \in DOMAIN players
               /\ joined[p].color = players[p].color

\* C38: joinGame, leaveGame and nextTurn called with a room code under
\* which no session is stored write nothing, and neither does leaveGame
\* called with an id that has no record in the session
C38_NoWriteWithoutSession ==
    [][\A code \in Codes : \A p \in PlayerIds :
          /\ (code \notin DOMAIN games
                 /\ (JoinRoom(code, p) \/ LeaveRoom(code, p) \/ NextTurnRoom(code)))
                => games' = games
          /\ (p \notin DOMAIN PlayersOf(code) /\ LeaveRoom(code, p))
                => games' = games]_vars

\* C39: a segment stored after a segment whose text is empty once trimmed
\* starts with its first character in upper case
C39_CapitalizeAfterEmptySegment ==
    \A i \in 2..Len(story) :
        (Trim(story[i - 1].text) = <<>> /\ story[i].text # <<>>)
            => story[i].text[1] = ToUpperCase(story[i].text[1])

====
